---- MODULE Spec2Model ----
(***************************************************************************)
(* Lab Result Interpreter (src/main.py, lines 32-248).                     *)
(*                                                                         *)
(* Numbers.  The catalog tables hold Python floats with at most one        *)
(* decimal digit.  In the catalog model every number is written in tenths  *)
(* (13.5 g/dL is 135), so that < and > on the model's integers agree with  *)
(* < and > on the floats.  The unit strings of the source that hold the    *)
(* micro sign are written with the letter u.                               *)
(*                                                                         *)
(* Optional[float] is modelled as a sequence of length at most one:        *)
(* None is << >> and a present value x is << x >>.                         *)
(***************************************************************************)
EXTENDS Integers, Sequences, FiniteSets, TLC

VARIABLES
    tests,      \* LabInterpreter.tests: panel code -> catalog (LabTest object)
    history,    \* what the caller has seen: one record per interpret() call
    range,      \* a free-standing ReferenceRange object
    value,      \* the last value passed to range.get_status, None before
    status      \* the status that call returned, None before

vars == << tests, history, range, value, status >>

\* ----------------------------------------------------------------- bounds

\* interpret() calls in one run of the interpreter model
MaxCalls == 2

\* thresholds and values of the free-standing range model lie in 0..MaxVal
MaxVal == 3

\* ------------------------------------------------------------- data model

None == << >>

Some(x) == << x >>

\* class ResultStatus: the members' values
ResultStatus == { "NORMAL", "LOW", "HIGH", "CRITICAL_LOW", "CRITICAL_HIGH" }

\* @dataclass ReferenceRange
ReferenceRange(min_value, max_value, critical_low, critical_high, unit) ==
    [ min_value |-> min_value, max_value |-> max_value,
      critical_low |-> critical_low, critical_high |-> critical_high,
      unit |-> unit ]

\* ReferenceRange.get_status with value <= min_value reported LOW
get_status_low_inclusive(self, v) ==
    IF self.critical_low # None /\ v < self.critical_low[1] THEN "CRITICAL_LOW"
    ELSE IF self.critical_high # None /\ v > self.critical_high[1] THEN "CRITICAL_HIGH"
    ELSE IF v <= self.min_value THEN "LOW"
    ELSE IF v > self.max_value THEN "HIGH"
    ELSE "NORMAL"

\* ReferenceRange.get_status with value >= max_value reported HIGH
get_status_high_inclusive(self, v) ==
    IF self.critical_low # None /\ v < self.critical_low[1] THEN "CRITICAL_LOW"
    ELSE IF self.critical_high # None /\ v > self.critical_high[1] THEN "CRITICAL_HIGH"
    ELSE IF v < self.min_value THEN "LOW"
    ELSE IF v >= self.max_value THEN "HIGH"
    ELSE "NORMAL"

\* ReferenceRange.get_status with the critical comparisons made non-strict
get_status_critical_inclusive(self, v) ==
    IF self.critical_low # None /\ v <= self.critical_low[1] THEN "CRITICAL_LOW"
    ELSE IF self.critical_high # None /\ v >= self.critical_high[1] THEN "CRITICAL_HIGH"
    ELSE IF v < self.min_value THEN "LOW"
    ELSE IF v > self.max_value THEN "HIGH"
    ELSE "NORMAL"

\* ReferenceRange.get_status
get_status(self, v) ==
    IF self.critical_low # None /\ v < self.critical_low[1] THEN "CRITICAL_LOW"
    ELSE IF self.critical_high # None /\ v > self.critical_high[1] THEN "CRITICAL_HIGH"
    ELSE IF v < self.min_value THEN "LOW"
    ELSE IF v > self.max_value THEN "HIGH"
    ELSE "NORMAL"

\* dict.get(key, default)
Get(d, key, default) == IF key \in DOMAIN d THEN d[key] ELSE default

\* the empty dict
EmptyDict == << >>

\* the default of the interpretation lookup
Fallback == "See reference ranges."

\* ------------------------------------------------------------ the catalogs

\* CompleteBloodCount.__init__
CompleteBloodCount ==
    [ results |-> EmptyDict,
      test_name |-> "Complete Blood Count (CBC)",
      reference_ranges |->
        [ WBC        |-> ReferenceRange(45, 110, Some(20), Some(200), "10^3/uL"),
          RBC        |-> ReferenceRange(45, 59, Some(20), Some(70), "10^6/uL"),
          Hemoglobin |-> ReferenceRange(135, 175, Some(70), Some(200), "g/dL"),
          Hematocrit |-> ReferenceRange(410, 530, Some(200), Some(700), "%"),
          MCV        |-> ReferenceRange(800, 1000, None, None, "fL"),
          Platelets  |-> ReferenceRange(1500, 4000, Some(500), Some(8000), "10^3/uL") ],
      interpretations |->
        [ WBC |->
            [ HIGH |-> "Elevated white blood cells may indicate infection, inflammation, or leukemia.",
              LOW  |-> "Low white blood cells may indicate bone marrow disorder, autoimmune disease, or medication side effects." ],
          RBC |->
            [ HIGH |-> "Elevated RBC may indicate dehydration, polycythemia, or chronic hypoxia.",
              LOW  |-> "Low RBC may indicate anemia, blood loss, or bone marrow failure." ],
          Hemoglobin |->
            [ HIGH |-> "Elevated hemoglobin may indicate dehydration or polycythemia.",
              LOW  |-> "Low hemoglobin indicates anemia - check MCV to determine type." ],
          Hematocrit |->
            [ HIGH |-> "Elevated hematocrit may indicate dehydration or polycythemia.",
              LOW  |-> "Low hematocrit indicates anemia or blood loss." ],
          MCV |->
            [ HIGH |-> "High MCV (macrocytic anemia) - may indicate B12/folate deficiency or reticulocytosis.",
              LOW  |-> "Low MCV (microcytic anemia) - may indicate iron deficiency or thalassemia." ],
          Platelets |->
            [ HIGH |-> "Elevated platelets may indicate inflammation, malignancy, or essential thrombocythemia.",
              LOW  |-> "Low platelets (thrombocytopenia) increases bleeding risk and requires investigation." ] ] ]

\* BasicMetabolicPanel.__init__
BasicMetabolicPanel ==
    [ results |-> EmptyDict,
      test_name |-> "Basic Metabolic Panel (BMP)",
      reference_ranges |->
        [ Sodium     |-> ReferenceRange(1360, 1450, Some(1200), Some(1600), "mEq/L"),
          Potassium  |-> ReferenceRange(35, 50, Some(28), Some(60), "mEq/L"),
          Chloride   |-> ReferenceRange(980, 1070, None, None, "mEq/L"),
          CO2        |-> ReferenceRange(230, 290, None, None, "mEq/L"),
          BUN        |-> ReferenceRange(70, 200, None, Some(1000), "mg/dL"),
          Creatinine |-> ReferenceRange(7, 13, None, Some(40), "mg/dL"),
          Glucose    |-> ReferenceRange(700, 1000, Some(400), Some(4000), "mg/dL"),
          Calcium    |-> ReferenceRange(85, 102, Some(65), Some(130), "mg/dL") ],
      interpretations |->
        [ Sodium |->
            [ HIGH |-> "Hypernatremia - may indicate dehydration or diabetes insipidus.",
              LOW  |-> "Hyponatremia - may indicate SIADH, heart/kidney/liver disease, or excess water intake." ],
          Potassium |->
            [ HIGH |-> "Hyperkalemia - dangerous for heart; may indicate kidney failure or excessive supplementation.",
              LOW  |-> "Hypokalemia - may cause muscle weakness; check diuretic use and diarrhea." ],
          Glucose |->
            [ HIGH |-> "Hyperglycemia - may indicate diabetes, stress, or prednisone use.",
              LOW  |-> "Hypoglycemia - requires immediate evaluation; risk of seizure/coma." ],
          BUN |->
            [ HIGH |-> "Elevated BUN may indicate kidney disease, dehydration, or high protein diet.",
              LOW  |-> "Low BUN may indicate liver disease, malnutrition, or overhydration." ],
          Creatinine |->
            [ HIGH |-> "Elevated creatinine indicates reduced kidney function - calculate GFR.",
              LOW  |-> "Low creatinine may indicate low muscle mass or liver disease." ] ] ]

\* LipidPanel.__init__
LipidPanel ==
    [ results |-> EmptyDict,
      test_name |-> "Lipid Panel",
      reference_ranges |->
        [ Total_Cholesterol |-> ReferenceRange(0, 2000, None, None, "mg/dL"),
          LDL               |-> ReferenceRange(0, 1000, None, None, "mg/dL"),
          HDL               |-> ReferenceRange(400, 3000, None, None, "mg/dL"),
          Triglycerides     |-> ReferenceRange(0, 1500, None, None, "mg/dL") ],
      interpretations |->
        [ Total_Cholesterol |->
            [ HIGH   |-> "High total cholesterol increases cardiovascular disease risk.",
              NORMAL |-> "Optimal cholesterol level for cardiovascular health." ],
          LDL |->
            [ HIGH   |-> "High LDL ('bad' cholesterol) increases heart attack and stroke risk.",
              NORMAL |-> "LDL at optimal level reduces cardiovascular disease risk." ],
          HDL |->
            [ LOW  |-> "Low HDL ('good' cholesterol) increases cardiovascular disease risk.",
              HIGH |-> "High HDL protects against cardiovascular disease." ],
          Triglycerides |->
            [ HIGH   |-> "High triglycerides increase cardiovascular disease risk and pancreatitis risk.",
              NORMAL |-> "Normal triglyceride level reduces cardiovascular risk." ] ] ]

\* LabInterpreter.__init__
LabInterpreter ==
    [ CBC |-> CompleteBloodCount, BMP |-> BasicMetabolicPanel, LP |-> LipidPanel ]

\* ------------------------------------------------------------- operations

\* ValueError(f"<text>{argument}"): the f-string is kept as its two parts
ValueError(text, argument) == [ type |-> "ValueError", args |-> << text, argument >> ]

\* the interpretation lookup with a critical status served by the text of the
\* plain status of the same side
lookup_interpretation_plain_side(self, test_code, st) ==
    LET table == Get(self.interpretations, test_code, EmptyDict)
        side  == IF st = "CRITICAL_LOW" THEN "LOW"
                 ELSE IF st = "CRITICAL_HIGH" THEN "HIGH" ELSE st
    IN Get(table, side, Fallback)

\* the interpretation lookup with a test code that has no table served by an
\* empty text
lookup_interpretation_no_default(self, test_code, st) ==
    IF test_code \in DOMAIN self.interpretations
    THEN Get(self.interpretations[test_code], st, Fallback)
    ELSE ""

\* LabTest.interpret_result, the lookup of the interpretation text:
\* self.interpretations.get(test_code, {}).get(status.value, "See reference ranges.")
lookup_interpretation(self, test_code, st) ==
    Get(Get(self.interpretations, test_code, EmptyDict), st, Fallback)

\* TestResult(...) as LabTest.interpret_result builds it; the f-string of
\* clinical_significance is kept as its parts
TestResult(self, test_code, v) ==
    LET ref_range == self.reference_ranges[test_code]
        st        == get_status(ref_range, v)
    IN [ test_name |-> test_code,
         value |-> v,
         unit |-> ref_range.unit,
         reference_range |-> ref_range,
         status |-> st,
         interpretation |-> lookup_interpretation(self, test_code, st),
         clinical_significance |->
            << "Normal range: ", ref_range.min_value, "-", ref_range.max_value,
               " ", ref_range.unit >> ]

\* interpret_result that records the unknown test code in the cache before it raises
interpret_result_caches_unknown(self, test_code, v) ==
    IF test_code \notin DOMAIN self.reference_ranges
    THEN [ self |-> [ self EXCEPT !.results = (test_code :> None) @@ @ ],
           raised |-> Some(ValueError("Unknown test code: ", test_code)),
           returned |-> None ]
    ELSE LET result == TestResult(self, test_code, v)
         IN [ self |-> [ self EXCEPT !.results = (test_code :> result) @@ @ ],
              raised |-> None,
              returned |-> Some(result) ]

\* interpret_result whose error names the catalog instead of the test code
interpret_result_names_catalog(self, test_code, v) ==
    IF test_code \notin DOMAIN self.reference_ranges
    THEN [ self |-> self,
           raised |-> Some(ValueError("Unknown test code: ", self.test_name)),
           returned |-> None ]
    ELSE LET result == TestResult(self, test_code, v)
         IN [ self |-> [ self EXCEPT !.results = (test_code :> result) @@ @ ],
              raised |-> None,
              returned |-> Some(result) ]

\* interpret_result with self.results.setdefault(test_code, result)
interpret_result_setdefault(self, test_code, v) ==
    IF test_code \notin DOMAIN self.reference_ranges
    THEN [ self |-> self,
           raised |-> Some(ValueError("Unknown test code: ", test_code)),
           returned |-> None ]
    ELSE LET result == TestResult(self, test_code, v)
         IN [ self |-> [ self EXCEPT !.results = @ @@ (test_code :> result) ],
              raised |-> None,
              returned |-> Some(result) ]

\* interpret_result with self.results = {test_code: result}
interpret_result_resets_cache(self, test_code, v) ==
    IF test_code \notin DOMAIN self.reference_ranges
    THEN [ self |-> self,
           raised |-> Some(ValueError("Unknown test code: ", test_code)),
           returned |-> None ]
    ELSE LET result == TestResult(self, test_code, v)
         IN [ self |-> [ self EXCEPT !.results = (test_code :> result) ],
              raised |-> None,
              returned |-> Some(result) ]

\* LabTest.interpret_result: the catalog after the call, the exception raised
\* (None when it returns) and the result returned (None when it raises)
interpret_result(self, test_code, v) ==
    IF test_code \notin DOMAIN self.reference_ranges
    THEN [ self |-> self,
           raised |-> Some(ValueError("Unknown test code: ", test_code)),
           returned |-> None ]
    ELSE LET result == TestResult(self, test_code, v)
         IN [ self |-> [ self EXCEPT !.results = (test_code :> result) @@ @ ],
              raised |-> None,
              returned |-> Some(result) ]

\* one entry of history: the arguments of an interpret() call, the catalog it
\* delegated to (None when it delegated to none) and its outcome
Call(test_type, test_code, v, delegated, raised, returned) ==
    [ test_type |-> test_type, test_code |-> test_code, value |-> v,
      delegated |-> delegated, raised |-> raised, returned |-> returned ]

\* LabInterpreter.interpret that sends an unknown test type to the CBC catalog
interpret_defaults_to_cbc(test_type, test_code, v) ==
    /\ Len(history) < MaxCalls
    /\ LET panel == IF test_type \in DOMAIN tests THEN test_type ELSE "CBC"
           r     == interpret_result(tests[panel], test_code, v)
       IN /\ tests' = [ tests EXCEPT ![panel] = r.self ]
          /\ history' = Append(history,
                Call(test_type, test_code, v, Some(panel), r.raised, r.returned))
    /\ UNCHANGED << range, value, status >>

\* LabInterpreter.interpret
interpret(test_type, test_code, v) ==
    /\ Len(history) < MaxCalls
    /\ IF test_type \notin DOMAIN tests
       THEN /\ tests' = tests
            /\ history' = Append(history,
                  Call(test_type, test_code, v, None,
                       Some(ValueError("Unknown test type: ", test_type)), None))
       ELSE LET r == interpret_result(tests[test_type], test_code, v)
            IN /\ tests' = [ tests EXCEPT ![test_type] = r.self ]
               /\ history' = Append(history,
                     Call(test_type, test_code, v, Some(test_type), r.raised, r.returned))
    /\ UNCHANGED << range, value, status >>

\* ------------------------------------------------------------------ inputs

\* values around every threshold of a range: one step (0.1) outside and the
\* threshold itself
Probes(r) ==
    { r.min_value, r.max_value }
    \cup (IF r.critical_low = None THEN { r.min_value - 1 }
          ELSE { r.critical_low[1] - 1, r.critical_low[1] })
    \cup (IF r.critical_high = None THEN { r.max_value + 1 }
          ELSE { r.critical_high[1], r.critical_high[1] + 1 })

\* interpret() arguments with a known test type and a known test code
KnownArguments ==
    { << p, c, v >> : p \in DOMAIN LabInterpreter, c \in {}, v \in {} }
    \cup UNION { UNION { { << p, c, v >> : v \in Probes(LabInterpreter[p].reference_ranges[c]) } :
                         c \in DOMAIN LabInterpreter[p].reference_ranges } :
                 p \in DOMAIN LabInterpreter }

\* the calls of the documented scenarios: Hemoglobin 15.0 and 6.0, Potassium 6.5,
\* Chloride 99, HDL 35
ScenarioArguments ==
    { << "CBC", "Hemoglobin", 150 >>, << "CBC", "Hemoglobin", 60 >>,
      << "BMP", "Potassium", 65 >>, << "BMP", "Chloride", 990 >>,
      << "LP", "HDL", 350 >> }

\* interpret() arguments with an unknown test type or an unknown test code
UnknownArguments ==
    { << "XYZ", "Hemoglobin", 150 >>, << "cbc", "WBC", 50 >>,
      << "CBC", "Albumin", 40 >>, << "CBC", "Sodium", 1400 >>,
      << "BMP", "HDL", 500 >>, << "LP", "hdl", 500 >> }

Arguments == KnownArguments \cup ScenarioArguments \cup UnknownArguments

\* every ReferenceRange with thresholds in 0..MaxVal, critical ones optional
Optional(S) == { None } \cup { Some(x) : x \in S }

Ranges ==
    { ReferenceRange(mn, mx, cl, ch, "") :
        mn \in 0..MaxVal, mx \in 0..MaxVal,
        cl \in Optional(0..MaxVal), ch \in Optional(0..MaxVal) }

\* ---------------------------------------------------------- specifications

\* the interpreter: LabInterpreter() followed by interpret() calls
Init ==
    /\ tests = LabInterpreter
    /\ history = << >>
    /\ range = None
    /\ value = None
    /\ status = None

Next == \E a \in Arguments : interpret(a[1], a[2], a[3])

Spec == Init /\ [][Next]_vars

\* a free-standing ReferenceRange: any range, followed by get_status() calls
InitRange ==
    /\ tests = LabInterpreter
    /\ history = << >>
    /\ range \in Ranges
    /\ value = None
    /\ status = None

GetStatus ==
    /\ \E v \in 0..MaxVal :
          /\ value' = Some(v)
          /\ status' = Some(get_status(range, v))
    /\ UNCHANGED << tests, history, range >>

NextRange == GetStatus

SpecRange == InitRange /\ [][NextRange]_vars

\* ------------------------------------------------------------ vocabulary

\* the step is an interpret() call; Made is the record of that call
Calling == Len(history') = Len(history) + 1

Made == history'[Len(history')]

\* the calls of history that returned a result
Returned == { i \in DOMAIN history : history[i].returned # None }

\* the calls of history that returned a result for test code c of panel p
ReturnedFor(p, c) ==
    { i \in Returned : history[i].test_type = p /\ history[i].test_code = c }

Latest(S) == CHOOSE i \in S : \A j \in S : j <= i

Elements(seq) == { seq[i] : i \in DOMAIN seq }

UnknownPanel(h) == h.test_type \notin DOMAIN LabInterpreter

UnknownTestCode(h) ==
    /\ h.test_type \in DOMAIN LabInterpreter
    /\ h.test_code \notin DOMAIN LabInterpreter[h.test_type].reference_ranges

\* the critical bounds that are defined lie on or outside the plain bounds
CriticalOutside(r) ==
    /\ r.critical_low # None => r.critical_low[1] <= r.min_value
    /\ r.critical_high # None => r.critical_high[1] >= r.max_value

\* the critical bounds that are defined lie strictly outside a non-empty plain range
CriticalStrictlyOutside(r) ==
    /\ r.min_value <= r.max_value
    /\ r.critical_low # None => r.critical_low[1] < r.min_value
    /\ r.critical_high # None => r.critical_high[1] > r.max_value

\* ----------------------------------------------------------------- claims

\* C1: for every catalog range and every value, get_status returns exactly one
\* status, the first that matches in the order CRITICAL_LOW (critical_low
\* defined and value below it), CRITICAL_HIGH (critical_high defined and value
\* above it), LOW (value below min_value), HIGH (value above max_value), NORMAL.
C1_FirstMatch ==
    \A i \in Returned :
        LET h  == history[i]
            r  == tests[h.test_type].reference_ranges[h.test_code]
            s  == h.returned[1].status
            cl == r.critical_low # None /\ h.value < r.critical_low[1]
            ch == r.critical_high # None /\ h.value > r.critical_high[1]
            lo == h.value < r.min_value
            hi == h.value > r.max_value
        IN /\ s \in ResultStatus
           /\ (s = "CRITICAL_LOW") <=> cl
           /\ (s = "CRITICAL_HIGH") <=> (~cl /\ ch)
           /\ (s = "LOW") <=> (~cl /\ ~ch /\ lo)
           /\ (s = "HIGH") <=> (~cl /\ ~ch /\ ~lo /\ hi)
           /\ (s = "NORMAL") <=> (~cl /\ ~ch /\ ~lo /\ ~hi)

\* a run that classified one value CRITICAL_HIGH and another, equal to a
\* defined critical_low, LOW
C1_Witness ==
    /\ \E i \in Returned : history[i].returned[1].status = "CRITICAL_HIGH"
    /\ \E i \in Returned :
          /\ history[i].returned[1].reference_range.critical_low = Some(history[i].value)
          /\ history[i].returned[1].status = "LOW"

\* C2 as stated: for every range with min_value <= max_value, whatever its
\* critical bounds, get_status(min_value) and get_status(max_value) are NORMAL.
C2_BoundsInclusiveAnyRange ==
    (/\ status # None
     /\ range.min_value <= range.max_value
     /\ value[1] \in { range.min_value, range.max_value })
    => status[1] = "NORMAL"

\* C2 amended: for every range with min_value <= max_value whose defined
\* critical bounds lie on or outside the plain bounds (critical_low <= min_value,
\* critical_high >= max_value), get_status(min_value) and get_status(max_value)
\* are NORMAL.
C2_BoundsInclusive ==
    (/\ status # None
     /\ range.min_value <= range.max_value
     /\ CriticalOutside(range)
     /\ value[1] \in { range.min_value, range.max_value })
    => status[1] = "NORMAL"

\* get_status(max_value) returned NORMAL on a range whose critical_high equals
\* its max_value
C2_Witness ==
    /\ status = Some("NORMAL")
    /\ range.min_value < range.max_value
    /\ range.critical_low # None
    /\ range.critical_high = Some(range.max_value)
    /\ value = Some(range.max_value)

\* C3 as stated: for every range with critical_low defined, get_status is LOW at
\* critical_low and CRITICAL_LOW below it; for every range with critical_high
\* defined, get_status is HIGH at critical_high and CRITICAL_HIGH above it.
C3_CriticalStrictAnyRange ==
    status # None =>
        /\ range.critical_low # None =>
              /\ value[1] = range.critical_low[1] => status[1] = "LOW"
              /\ value[1] < range.critical_low[1] => status[1] = "CRITICAL_LOW"
        /\ range.critical_high # None =>
              /\ value[1] = range.critical_high[1] => status[1] = "HIGH"
              /\ value[1] > range.critical_high[1] => status[1] = "CRITICAL_HIGH"

\* C3 amended: the same, for every range whose defined critical bounds lie
\* strictly outside its plain range (critical_low < min_value <= max_value <
\* critical_high), which is the case of every catalog range.
C3_CriticalStrict ==
    (status # None /\ CriticalStrictlyOutside(range)) =>
        /\ range.critical_low # None =>
              /\ value[1] = range.critical_low[1] => status[1] = "LOW"
              /\ value[1] < range.critical_low[1] => status[1] = "CRITICAL_LOW"
        /\ range.critical_high # None =>
              /\ value[1] = range.critical_high[1] => status[1] = "HIGH"
              /\ value[1] > range.critical_high[1] => status[1] = "CRITICAL_HIGH"

\* get_status(critical_high) returned HIGH on a range with both critical bounds
\* strictly outside its plain range
C3_Witness ==
    /\ CriticalStrictlyOutside(range)
    /\ range.critical_low # None
    /\ range.critical_high # None
    /\ value = range.critical_high
    /\ status = Some("HIGH")

\* C4 as stated: interpret("CBC", "Hemoglobin", 6.0) returns status
\* CRITICAL_LOW with the Hemoglobin LOW text as its interpretation.
C4_CriticalLowCarriesLowText ==
    \A i \in DOMAIN history :
        (/\ history[i].test_type = "CBC"
         /\ history[i].test_code = "Hemoglobin"
         /\ history[i].value = 60)
        => /\ history[i].returned # None
           /\ history[i].returned[1].status = "CRITICAL_LOW"
           /\ history[i].returned[1].interpretation =
                 LabInterpreter.CBC.interpretations.Hemoglobin.LOW

\* C4 amended: interpret("CBC", "Hemoglobin", 6.0), and every Hemoglobin value
\* below the critical_low of 7.0, returns status CRITICAL_LOW with the fallback
\* text "See reference ranges." as its interpretation, the Hemoglobin table
\* having no CRITICAL_LOW entry.
C4_CriticalLowCarriesFallback ==
    \A i \in DOMAIN history :
        (/\ history[i].test_type = "CBC"
         /\ history[i].test_code = "Hemoglobin"
         /\ history[i].value < 70)
        => /\ history[i].returned # None
           /\ history[i].returned[1].status = "CRITICAL_LOW"
           /\ history[i].returned[1].interpretation = "See reference ranges."

\* interpret("CBC", "Hemoglobin", 6.0) has returned
C4_Witness ==
    \E i \in Returned :
        /\ history[i].test_type = "CBC"
        /\ history[i].test_code = "Hemoglobin"
        /\ history[i].value = 60

\* C5: interpret with a test type that is none of the interpreter's panels
\* raises the unknown-panel error, delegates to no catalog and leaves the
\* result cache of every catalog unchanged.
C5_UnknownPanel ==
    [][ (Calling /\ UnknownPanel(Made)) =>
            /\ Made.raised = Some(ValueError("Unknown test type: ", Made.test_type))
            /\ Made.returned = None
            /\ Made.delegated = None
            /\ DOMAIN tests' = DOMAIN tests
            /\ \A p \in DOMAIN tests : tests'[p].results = tests[p].results ]_vars

\* an unknown test type was refused while a cache held a result
C5_Witness ==
    /\ Len(history) = 2
    /\ UnknownPanel(history[2])
    /\ history[2].raised # None
    /\ \E p \in DOMAIN tests : DOMAIN tests[p].results # {}

\* C6: interpret with a known panel and a test code absent from its
\* reference ranges raises the unknown-test-code error, returns no result and
\* leaves the result cache of every catalog unchanged.
C6_UnknownTestCode ==
    [][ (Calling /\ UnknownTestCode(Made)) =>
            /\ Made.raised # None
            /\ Made.raised[1].type = "ValueError"
            /\ Made.raised[1].args[1] = "Unknown test code: "
            /\ Made.returned = None
            /\ \A p \in DOMAIN tests : tests'[p].results = tests[p].results ]_vars

\* an unknown test code was refused by a catalog whose cache held a result
C6_Witness ==
    /\ Len(history) = 2
    /\ UnknownTestCode(history[2])
    /\ history[2].raised # None
    /\ DOMAIN tests[history[2].test_type].results # {}

\* C7 as stated: the error raised for an unknown test code identifies both the
\* panel (by its code or by its name) and the requested test code.
C7_ErrorNamesPanelAndCode ==
    \A i \in DOMAIN history :
        UnknownTestCode(history[i]) =>
            /\ history[i].raised # None
            /\ history[i].test_code \in Elements(history[i].raised[1].args)
            /\ \/ history[i].test_type \in Elements(history[i].raised[1].args)
               \/ tests[history[i].test_type].test_name \in Elements(history[i].raised[1].args)

\* C7 amended: the error raised for an unknown test code identifies the
\* requested test code only: its message is "Unknown test code: " followed by
\* that code, and names no panel.
C7_ErrorNamesCode ==
    \A i \in DOMAIN history :
        UnknownTestCode(history[i]) =>
            history[i].raised =
                Some(ValueError("Unknown test code: ", history[i].test_code))

\* the CBC catalog refused the test code Sodium, which the BMP catalog knows
C7_Witness ==
    \E i \in DOMAIN history :
        /\ history[i].test_type = "CBC"
        /\ history[i].test_code = "Sodium"
        /\ history[i].raised # None

\* C8: each catalog's cache holds an entry for exactly the test codes that
\* had a successful call, one per test code, and that entry is the result the
\* most recent successful call for that panel and test code returned.
C8_LastWriteWins ==
    \A p \in DOMAIN tests :
        /\ DOMAIN tests[p].results =
              { c \in DOMAIN tests[p].reference_ranges : ReturnedFor(p, c) # {} }
        /\ \A c \in DOMAIN tests[p].results :
              tests[p].results[c] = history[Latest(ReturnedFor(p, c))].returned[1]

\* two successful calls for the same panel and test code with different values
C8_Witness ==
    /\ Returned = { 1, 2 }
    /\ history[1].test_type = history[2].test_type
    /\ history[1].test_code = history[2].test_code
    /\ history[1].value # history[2].value
    /\ history[1].returned[1].status # history[2].returned[1].status

\* C9: the interpretation of a returned result is the catalog's text for the
\* test code and the computed status when the tables hold one, and otherwise
\* the string "See reference ranges.".
C9_InterpretationOrFallback ==
    \A i \in Returned :
        LET h      == history[i]
            tables == tests[h.test_type].interpretations
            st     == h.returned[1].status
        IN h.returned[1].interpretation =
              IF h.test_code \in DOMAIN tables /\ st \in DOMAIN tables[h.test_code]
              THEN tables[h.test_code][st]
              ELSE "See reference ranges."

\* interpret("BMP", "Chloride", 99) returned NORMAL with the fallback text, and
\* another call returned a text of the tables
C9_Witness ==
    /\ \E i \in Returned :
          /\ history[i].test_type = "BMP"
          /\ history[i].test_code = "Chloride"
          /\ history[i].value = 990
          /\ history[i].returned[1].status = "NORMAL"
          /\ history[i].returned[1].interpretation = "See reference ranges."
    /\ \E i \in Returned : history[i].returned[1].interpretation # "See reference ranges."

\* C10: a successful interpret(panel, test_code, value) changes nothing but
\* the cache entry of that panel for that test code (the other entries of the
\* panel, the other panels' caches, the set of panels and every table stay),
\* and returns what any earlier call with the same arguments returned.
C10_Frame ==
    [][ (Calling /\ Made.returned # None) =>
            /\ DOMAIN tests' = DOMAIN tests
            /\ \A p \in DOMAIN tests :
                  /\ tests'[p].test_name = tests[p].test_name
                  /\ tests'[p].reference_ranges = tests[p].reference_ranges
                  /\ tests'[p].interpretations = tests[p].interpretations
                  /\ \A c \in DOMAIN tests[p].results \cup DOMAIN tests'[p].results :
                        (p # Made.test_type \/ c # Made.test_code) =>
                            /\ c \in DOMAIN tests[p].results
                            /\ c \in DOMAIN tests'[p].results
                            /\ tests'[p].results[c] = tests[p].results[c]
            /\ \A i \in Returned :
                  (/\ history[i].test_type = Made.test_type
                   /\ history[i].test_code = Made.test_code
                   /\ history[i].value = Made.value)
                  => history[i].returned = Made.returned ]_vars

\* two successful calls for two test codes of one panel, both results cached
C10_Witness ==
    /\ Returned = { 1, 2 }
    /\ history[1].test_type = history[2].test_type
    /\ history[1].test_code # history[2].test_code
    /\ DOMAIN tests[history[1].test_type].results =
          { history[1].test_code, history[2].test_code }

====
